---- MODULE Spec2Model ----
(***************************************************************************)
(* Touchpad gesture recognizer of niri (src/input/my_touchpad_gesture.rs). *)
(*                                                                         *)
(* Numbers.  Swipe deltas are whole units, so the f64 sums and squares of  *)
(* the source are exact on them.  A pinch scale is kept in hundredths      *)
(* (0.9 is 90, 1.3 is 130).  A u32 timestamp is kept as two 16-bit limbs   *)
(* <<hi, lo>> (value hi * 65536 + lo) so that it keeps its full width.     *)
(***************************************************************************)
EXTENDS Integers, Sequences, FiniteSets, TLC

VARIABLES
    gesture,          \* niri.my_touchpad_gesture: the six cells
    panicked,         \* the thread has panicked (arithmetic overflow)
    last,             \* the last call: its arguments, its cell and the history before it, its result
    fed,              \* history: per swipe cell, the deltas update_and_maybe_decide was given since the cell's last reset, summed from each begin up to the commit that follows it
    post,             \* history: swipe_4f_on_update dx fed since the decision / the last injection
    final,            \* history: per pinch cell, the last sample on_update handled since the latest begin or end call on it
    terminal,         \* history of a bounded call sequence: per on_end cell, the actions its on_end calls fired since its latest begin
    calls,            \* history of a bounded call sequence: the number of calls made
    active,           \* history of well-formed gestures: the cells that have a gesture in progress
    gestures          \* history of well-formed gestures: the number of gestures begun

vars == <<gesture, panicked, last, fed, post, final, terminal, calls, active, gestures>>

\* The length of the call sequences explored when calls are made in any order.
MaxCalls == 5
\* The number of gestures explored when the calls come as well-formed gestures.
MaxGestures == 2

(***************************************************************************)
(* Input sets                                                              *)
(***************************************************************************)
\* Deltas (dx, dy) given to update_and_maybe_decide.
SwipeFeeds == {<<8, 0>>, <<0, 8>>, <<-16, -16>>}
\* dx given to swipe_4f_on_update.
LiveDeltas == {-160, 160}
\* dy given to swipe_4f_on_update (the reducer ignores it).
LiveDys == {0, 8}
\* Pinch scale samples, in hundredths.
PinchScales == {50, 70, 90, 110, 130}
Cells == {"swipe_3f", "swipe_4f", "pinch_3f", "pinch_4f", "hold_3f", "hold_4f"}
\* niri.layout.focus() and the app_id of its toplevel: no window, the target, another.
FocusApps == {"none", "google-chrome", "other"}
\* niri.window_under_cursor(): no window, or a window.
CursorWindows == {"none", "w1"}

Abs(x) == IF x < 0 THEN -x ELSE x

(***************************************************************************)
(* u32 arithmetic on limbs                                                 *)
(***************************************************************************)
LimbBase == 65536
HOLD_MS == 300

U32(hi, lo) == <<hi, lo>>
U32_MAX == U32(LimbBase - 1, LimbBase - 1)
\* a < b
U32_lt(a, b) == a[1] < b[1] \/ (a[1] = b[1] /\ a[2] < b[2])
\* a + n for a small n: the wrapped sum and whether it overflowed
U32_add(a, n) ==
    LET lo    == a[2] + n
        hi    == a[1] + (lo \div LimbBase)
    IN  [sum |-> U32(hi % LimbBase, lo % LimbBase), overflow |-> hi >= LimbBase]
\* a - n for a small n <= a
U32_minus(a, n) ==
    IF a[2] >= n THEN U32(a[1], a[2] - n) ELSE U32(a[1] - 1, a[2] + LimbBase - n)

\* Timestamps the input stack delivers at the begin and at the end of a hold.
HoldBeginTimes == { U32(0, 1000), U32_minus(U32_MAX, 299) }
HoldEndTimes == { U32(0, 1299), U32(0, 1300), U32_MAX }

(***************************************************************************)
(* Key sequences and external actions                                      *)
(***************************************************************************)
CHROME_CLOSE_TAB == <<"key", "29:1", "17:1", "17:0", "29:0">>
CHROME_LEFT_TAB  == <<"key", "29:1", "42:1", "15:1", "15:0", "42:0", "29:0">>
CHROME_RIGHT_TAB == <<"key", "29:1", "15:1", "15:0", "29:0">>
CHROME_REFRESH   == <<"key", "29:1", "19:1", "19:0", "29:0">>
CHROME_BACK      == <<"key", "158:1", "158:0">>

\* One external effect of a reducer call.
spawn(args) == [act |-> "spawn", args |-> args, window |-> "none", grow |-> FALSE]
toggle_window_width(w, grow) ==
    [act |-> "toggle_window_width", args |-> <<>>, window |-> w, grow |-> grow]
send_close(w) == [act |-> "send_close", args |-> <<>>, window |-> w, grow |-> FALSE]

\* with_toplevel_role(..., app_id == Some("google-chrome"))
is_chrome(focus) == focus = "google-chrome"

(***************************************************************************)
(* SwipeGesture                                                            *)
(***************************************************************************)
SwipeGesture_new == [cx |-> 0, cy |-> 0, direction |-> "Unknown", decision |-> "Unknown"]

SwipeGesture_reset(self) ==
    [self EXCEPT !.cx = 0, !.cy = 0, !.direction = "Unknown", !.decision = "Unknown"]

SwipeGesture_begin(self) == [self EXCEPT !.decision = "Deciding"]

SWIPE_THRESHOLD == 16

\* Mutant: a tie of magnitudes commits Horizontal.
swipe_direction_tie_horizontal(cx, cy) ==
    IF Abs(cx) >= Abs(cy) THEN "Horizontal" ELSE "Vertical"

\* The committed direction for an accumulated displacement.
swipe_direction(cx, cy) == IF Abs(cx) > Abs(cy) THEN "Horizontal" ELSE "Vertical"

\* Mutant: a displacement of exactly the threshold does not commit.
swipe_far_enough_strict(cx, cy) == cx * cx + cy * cy > SWIPE_THRESHOLD * SWIPE_THRESHOLD

\* Has the displacement moved far enough to decide.
swipe_far_enough(cx, cy) == cx * cx + cy * cy >= SWIPE_THRESHOLD * SWIPE_THRESHOLD

\* Returns the cell after the call and the Option<GestureDirection> ("None" or the direction).
update_and_maybe_decide(self, delta_x, delta_y) ==
    IF self.decision # "Deciding"
    THEN [self |-> self, ret |-> "None"]
    ELSE LET cx == self.cx + delta_x
             cy == self.cy + delta_y
         IN  IF swipe_far_enough(cx, cy)
             THEN [self |-> [cx |-> cx, cy |-> cy,
                             direction |-> swipe_direction(cx, cy),
                             decision |-> "Decided"],
                   ret |-> swipe_direction(cx, cy)]
             ELSE [self |-> [self EXCEPT !.cx = cx, !.cy = cy], ret |-> "None"]

(***************************************************************************)
(* PinchGesture                                                            *)
(***************************************************************************)
PinchGesture_new == [scale |-> 0, direction |-> "Unknown", decision |-> "Unknown"]

\* Mutant: reset leaves the scale.
PinchGesture_reset_keeps_scale(self) ==
    [self EXCEPT !.direction = "Unknown", !.decision = "Unknown"]

PinchGesture_reset(self) ==
    [self EXCEPT !.scale = 0, !.direction = "Unknown", !.decision = "Unknown"]

PinchGesture_begin(self) == [self EXCEPT !.decision = "Deciding"]

(***************************************************************************)
(* HoldGesture                                                             *)
(***************************************************************************)
HoldGesture_new == [begin_ts |-> U32(0, 0), decision |-> "Unknown"]

HoldGesture_reset(self) == [self EXCEPT !.begin_ts = U32(0, 0), !.decision = "Unknown"]

HoldGesture_begin(self, ts) == [self EXCEPT !.begin_ts = ts, !.decision = "Decided"]

(***************************************************************************)
(* MyTouchpadGesture                                                       *)
(***************************************************************************)
MyTouchpadGesture_new ==
    [swipe_3f |-> SwipeGesture_new, swipe_4f |-> SwipeGesture_new,
     pinch_3f |-> PinchGesture_new, pinch_4f |-> PinchGesture_new,
     hold_3f  |-> HoldGesture_new,  hold_4f  |-> HoldGesture_new]

(***************************************************************************)
(* impl State: the reducers.  Each returns the cell after the call, the    *)
(* bool it returns and the external actions it fired, in order.            *)
(***************************************************************************)
swipe_3f_on_update(swipe) == [cell |-> swipe, ret |-> FALSE, fired |-> <<>>]

\* Mutant: the accumulator is fed whatever application is focused.
swipe_4f_on_update_any_focus(swipe, dx, dy, focus) ==
    IF swipe.decision # "Decided"
    THEN [cell |-> swipe, ret |-> FALSE, fired |-> <<>>]
    ELSE IF swipe.direction = "Horizontal"
    THEN LET cx == swipe.cx + dx
         IN  IF is_chrome(focus) /\ Abs(cx) > 150
             THEN [cell |-> [swipe EXCEPT !.cx = 0], ret |-> TRUE,
                   fired |-> IF cx < 0 THEN <<spawn(CHROME_LEFT_TAB)>>
                                       ELSE <<spawn(CHROME_RIGHT_TAB)>>]
             ELSE [cell |-> [swipe EXCEPT !.cx = cx], ret |-> TRUE, fired |-> <<>>]
    ELSE [cell |-> swipe, ret |-> FALSE, fired |-> <<>>]

swipe_4f_on_update(swipe, dx, dy, focus) ==
    IF swipe.decision # "Decided"
    THEN [cell |-> swipe, ret |-> FALSE, fired |-> <<>>]
    ELSE IF swipe.direction = "Horizontal"
    THEN IF is_chrome(focus)
         THEN LET cx == swipe.cx + dx
              IN  IF Abs(cx) > 150
                  THEN [cell |-> [swipe EXCEPT !.cx = 0], ret |-> TRUE,
                        fired |-> IF cx < 0 THEN <<spawn(CHROME_LEFT_TAB)>>
                                            ELSE <<spawn(CHROME_RIGHT_TAB)>>]
                  ELSE [cell |-> [swipe EXCEPT !.cx = cx], ret |-> TRUE, fired |-> <<>>]
         ELSE [cell |-> swipe, ret |-> TRUE, fired |-> <<>>]
    ELSE [cell |-> swipe, ret |-> FALSE, fired |-> <<>>]

\* Mutant: the Unknown guard is missing.
swipe_4f_on_end_unguarded(swipe, cancelled) ==
    [cell |-> SwipeGesture_reset(swipe), ret |-> TRUE, fired |-> <<>>]

swipe_4f_on_end(swipe, cancelled) ==
    IF swipe.decision = "Unknown"
    THEN [cell |-> swipe, ret |-> FALSE, fired |-> <<>>]
    ELSE [cell |-> SwipeGesture_reset(swipe), ret |-> TRUE, fired |-> <<>>]

\* Mutant: the boundary 0.9 commits In.
pinch_3f_on_update_inclusive(pinch, scale) ==
    CASE pinch.decision = "Unknown" -> [cell |-> pinch, ret |-> FALSE, fired |-> <<>>]
      [] pinch.decision = "Deciding" ->
            IF scale <= 90
            THEN [cell |-> [pinch EXCEPT !.direction = "In", !.decision = "Decided"],
                  ret |-> TRUE, fired |-> <<>>]
            ELSE IF scale > 110
            THEN [cell |-> [pinch EXCEPT !.direction = "Out", !.decision = "Decided"],
                  ret |-> TRUE, fired |-> <<>>]
            ELSE [cell |-> pinch, ret |-> TRUE, fired |-> <<>>]
      [] pinch.decision = "Decided" ->
            [cell |-> [pinch EXCEPT !.scale = scale], ret |-> TRUE, fired |-> <<>>]

pinch_3f_on_update(pinch, scale) ==
    CASE pinch.decision = "Unknown" -> [cell |-> pinch, ret |-> FALSE, fired |-> <<>>]
      [] pinch.decision = "Deciding" ->
            IF scale < 90
            THEN [cell |-> [pinch EXCEPT !.direction = "In", !.decision = "Decided"],
                  ret |-> TRUE, fired |-> <<>>]
            ELSE IF scale > 110
            THEN [cell |-> [pinch EXCEPT !.direction = "Out", !.decision = "Decided"],
                  ret |-> TRUE, fired |-> <<>>]
            ELSE [cell |-> pinch, ret |-> TRUE, fired |-> <<>>]
      [] pinch.decision = "Decided" ->
            [cell |-> [pinch EXCEPT !.scale = scale], ret |-> TRUE, fired |-> <<>>]

\* (0.7..1.3).contains(&scale)
in_dead_zone(scale) == 70 <= scale /\ scale < 130

\* Mutant: the cell is not reset after the toggle.
pinch_3f_on_end_no_reset(pinch, cancelled, cursor) ==
    CASE pinch.decision = "Unknown" -> [cell |-> pinch, ret |-> FALSE, fired |-> <<>>]
      [] pinch.decision = "Deciding" ->
            [cell |-> PinchGesture_reset(pinch), ret |-> TRUE, fired |-> <<>>]
      [] pinch.decision = "Decided" ->
            IF cancelled
            THEN [cell |-> pinch, ret |-> TRUE, fired |-> <<>>]
            ELSE IF in_dead_zone(pinch.scale)
            THEN [cell |-> pinch, ret |-> TRUE, fired |-> <<>>]
            ELSE [cell |-> pinch, ret |-> TRUE,
                  fired |-> IF cursor = "none" THEN <<>>
                            ELSE IF pinch.direction = "In"
                            THEN <<toggle_window_width(cursor, FALSE)>>
                            ELSE <<toggle_window_width(cursor, TRUE)>>]

pinch_3f_on_end(pinch, cancelled, cursor) ==
    CASE pinch.decision = "Unknown" -> [cell |-> pinch, ret |-> FALSE, fired |-> <<>>]
      [] pinch.decision = "Deciding" ->
            [cell |-> PinchGesture_reset(pinch), ret |-> TRUE, fired |-> <<>>]
      [] pinch.decision = "Decided" ->
            IF cancelled
            THEN [cell |-> pinch, ret |-> TRUE, fired |-> <<>>]
            ELSE IF in_dead_zone(pinch.scale)
            THEN [cell |-> pinch, ret |-> TRUE, fired |-> <<>>]
            ELSE [cell |-> PinchGesture_reset(pinch), ret |-> TRUE,
                  fired |-> IF cursor = "none" THEN <<>>
                            ELSE IF pinch.direction = "In"
                            THEN <<toggle_window_width(cursor, FALSE)>>
                            ELSE <<toggle_window_width(cursor, TRUE)>>]

pinch_4f_on_update(pinch, scale) ==
    CASE pinch.decision = "Unknown" -> [cell |-> pinch, ret |-> FALSE, fired |-> <<>>]
      [] pinch.decision = "Deciding" ->
            IF scale < 90
            THEN [cell |-> [pinch EXCEPT !.direction = "In", !.decision = "Decided"],
                  ret |-> TRUE, fired |-> <<>>]
            ELSE IF scale > 110
            THEN [cell |-> [pinch EXCEPT !.direction = "Out", !.decision = "Decided"],
                  ret |-> TRUE, fired |-> <<>>]
            ELSE [cell |-> pinch, ret |-> TRUE, fired |-> <<>>]
      [] pinch.decision = "Decided" ->
            [cell |-> [pinch EXCEPT !.scale = scale], ret |-> TRUE, fired |-> <<>>]

\* Mutant: the two key sequences are exchanged.
pinch_4f_on_end_exchanged(pinch, cancelled, focus) ==
    CASE pinch.decision = "Unknown" -> [cell |-> pinch, ret |-> FALSE, fired |-> <<>>]
      [] pinch.decision = "Deciding" ->
            [cell |-> PinchGesture_reset(pinch), ret |-> TRUE, fired |-> <<>>]
      [] pinch.decision = "Decided" ->
            IF cancelled
            THEN [cell |-> pinch, ret |-> TRUE, fired |-> <<>>]
            ELSE IF in_dead_zone(pinch.scale)
            THEN [cell |-> pinch, ret |-> TRUE, fired |-> <<>>]
            ELSE [cell |-> PinchGesture_reset(pinch), ret |-> TRUE,
                  fired |-> IF pinch.direction = "In"
                            THEN IF is_chrome(focus) THEN <<spawn(CHROME_REFRESH)>> ELSE <<>>
                            ELSE IF is_chrome(focus) THEN <<spawn(CHROME_BACK)>> ELSE <<>>]

pinch_4f_on_end(pinch, cancelled, focus) ==
    CASE pinch.decision = "Unknown" -> [cell |-> pinch, ret |-> FALSE, fired |-> <<>>]
      [] pinch.decision = "Deciding" ->
            [cell |-> PinchGesture_reset(pinch), ret |-> TRUE, fired |-> <<>>]
      [] pinch.decision = "Decided" ->
            IF cancelled
            THEN [cell |-> pinch, ret |-> TRUE, fired |-> <<>>]
            ELSE IF in_dead_zone(pinch.scale)
            THEN [cell |-> pinch, ret |-> TRUE, fired |-> <<>>]
            ELSE [cell |-> PinchGesture_reset(pinch), ret |-> TRUE,
                  fired |-> IF pinch.direction = "In"
                            THEN IF is_chrome(focus) THEN <<spawn(CHROME_BACK)>> ELSE <<>>
                            ELSE IF is_chrome(focus) THEN <<spawn(CHROME_REFRESH)>> ELSE <<>>]

\* Mutant: the window under the cursor is closed even when the focused
\* application is the target.
hold_4f_on_end_both(hold, ts, cancelled, focus, cursor, checks) ==
    IF hold.decision # "Decided"
    THEN [cell |-> hold, ret |-> FALSE, fired |-> <<>>, panic |-> FALSE]
    ELSE LET deadline == U32_add(hold.begin_ts, HOLD_MS)
         IN  IF deadline.overflow /\ checks
             THEN [cell |-> hold, ret |-> FALSE, fired |-> <<>>, panic |-> TRUE]
             ELSE [cell |-> HoldGesture_reset(hold), ret |-> TRUE, panic |-> FALSE,
                   fired |-> IF U32_lt(ts, deadline.sum) THEN <<>>
                             ELSE IF cancelled THEN <<>>
                             ELSE (IF is_chrome(focus) THEN <<spawn(CHROME_CLOSE_TAB)>>
                                   ELSE <<>>)
                                  \o (IF cursor # "none" THEN <<send_close(cursor)>>
                                      ELSE <<>>)]

\* `begin_ts + 300` on u32 panics when the build checks overflow (checks) and
\* wraps otherwise; panic is set when the call does not return.
hold_4f_on_end(hold, ts, cancelled, focus, cursor, checks) ==
    IF hold.decision # "Decided"
    THEN [cell |-> hold, ret |-> FALSE, fired |-> <<>>, panic |-> FALSE]
    ELSE LET deadline == U32_add(hold.begin_ts, HOLD_MS)
         IN  IF deadline.overflow /\ checks
             THEN [cell |-> hold, ret |-> FALSE, fired |-> <<>>, panic |-> TRUE]
             ELSE [cell |-> HoldGesture_reset(hold), ret |-> TRUE, panic |-> FALSE,
                   fired |-> IF U32_lt(ts, deadline.sum) THEN <<>>
                             ELSE IF cancelled THEN <<>>
                             ELSE IF is_chrome(focus) THEN <<spawn(CHROME_CLOSE_TAB)>>
                             ELSE IF cursor # "none" THEN <<send_close(cursor)>>
                             ELSE <<>>]

(***************************************************************************)
(* The reducers on the registry `self.niri.my_touchpad_gesture`: each names *)
(* the one cell it borrows.                                                *)
(***************************************************************************)
With(g, c, cell) == [g EXCEPT ![c] = cell]

On(g, c, r) == [gesture |-> With(g, c, r.cell), ret |-> r.ret, fired |-> r.fired]

State_swipe_3f_on_update(g) == On(g, "swipe_3f", swipe_3f_on_update(g.swipe_3f))

State_swipe_4f_on_update(g, dx, dy, focus) ==
    On(g, "swipe_4f", swipe_4f_on_update(g.swipe_4f, dx, dy, focus))

State_swipe_4f_on_end(g, cancelled) ==
    On(g, "swipe_4f", swipe_4f_on_end(g.swipe_4f, cancelled))

State_pinch_3f_on_update(g, scale) ==
    On(g, "pinch_3f", pinch_3f_on_update(g.pinch_3f, scale))

State_pinch_3f_on_end(g, cancelled, cursor) ==
    On(g, "pinch_3f", pinch_3f_on_end(g.pinch_3f, cancelled, cursor))

State_pinch_4f_on_update(g, scale) ==
    On(g, "pinch_4f", pinch_4f_on_update(g.pinch_4f, scale))

State_pinch_4f_on_end(g, cancelled, focus) ==
    On(g, "pinch_4f", pinch_4f_on_end(g.pinch_4f, cancelled, focus))

State_hold_4f_on_end(g, ts, cancelled, focus, cursor, checks) ==
    LET r == hold_4f_on_end(g.hold_4f, ts, cancelled, focus, cursor, checks)
    IN  [gesture |-> With(g, "hold_4f", r.cell), ret |-> r.ret, fired |-> r.fired,
         panic |-> r.panic]

(***************************************************************************)
(* The state machine.  The input handlers of the compositor (outside this  *)
(* file) call the cells' begin / update_and_maybe_decide / reset methods   *)
(* and the State reducers.  No method has a precondition: any call can be  *)
(* made in any state of the registry.  The window context of a call is     *)
(* read when the call is made.                                             *)
(***************************************************************************)
Bool(b) == IF b THEN "true" ELSE "false"

OnEndOps == {"swipe_4f_on_end", "pinch_3f_on_end", "pinch_4f_on_end", "hold_4f_on_end"}

NoFed == [on |-> FALSE, x |-> 0, y |-> 0, live |-> FALSE]
NoPost == [sum |-> 0, strayed |-> FALSE]
NoFinal == [pinch_3f |-> <<>>, pinch_4f |-> <<>>]
NoTerminal == [swipe_4f |-> 0, pinch_3f |-> 0, pinch_4f |-> 0, hold_4f |-> 0]

Init ==
    /\ gesture = MyTouchpadGesture_new
    /\ panicked = FALSE
    /\ last = [op |-> "new", cell |-> "none", before |-> MyTouchpadGesture_new,
               pre |-> <<>>, arg |-> <<>>,
               cancelled |-> FALSE, focus |-> "none", cursor |-> "none",
               ret |-> "unit", fired |-> <<>>,
               hist |-> [fed |-> NoFed, post |-> NoPost, final |-> <<>>],
               again |-> FALSE]
    /\ fed = [swipe_3f |-> NoFed, swipe_4f |-> NoFed]
    /\ post = NoPost
    /\ final = NoFinal
    /\ terminal = NoTerminal
    /\ calls = 0
    /\ active = {}
    /\ gestures = 0

\* The registry and the call record after a call on cell c.  The record keeps
\* the history of cell c before the call; `again` says that the call before
\* this one was an on_end on the same cell.
Call(op, c, after, arg, cancelled, focus, cursor, ret, fired) ==
    /\ ~panicked
    /\ gesture' = after
    /\ last' = [op |-> op, cell |-> c, before |-> gesture, pre |-> gesture[c],
                arg |-> arg,
                cancelled |-> cancelled, focus |-> focus, cursor |-> cursor,
                ret |-> ret, fired |-> fired,
                hist |-> [fed |-> IF c \in DOMAIN fed THEN fed[c] ELSE NoFed,
                          post |-> post,
                          final |-> IF c \in DOMAIN final THEN final[c] ELSE <<>>],
                again |-> last.op \in OnEndOps /\ last.cell = c]

\* History kept by a begin on cell c.
Begun(c) ==
    /\ fed' = IF c \in DOMAIN fed THEN [fed EXCEPT ![c].on = TRUE] ELSE fed
    /\ post' = IF c = "swipe_4f" THEN NoPost ELSE post
    /\ final' = IF c \in DOMAIN final THEN [final EXCEPT ![c] = <<>>] ELSE final
    /\ UNCHANGED panicked

\* History kept by an end call (on_end or reset) on cell c that left it as `cell`.
Ended(c, cell) ==
    /\ fed' = IF c \in DOMAIN fed /\ cell.decision = "Unknown"
              THEN [fed EXCEPT ![c] = NoFed] ELSE fed
    /\ post' = IF c = "swipe_4f" /\ cell.decision = "Unknown" THEN NoPost ELSE post
    /\ final' = IF c \in DOMAIN final THEN [final EXCEPT ![c] = <<>>] ELSE final

---------------------------------------------------------------------------
swipe_3f_begin ==
    /\ Call("begin", "swipe_3f", With(gesture, "swipe_3f", SwipeGesture_begin(gesture.swipe_3f)), <<>>,
            FALSE, "none", "none", "unit", <<>>)
    /\ Begun("swipe_3f")

swipe_4f_begin ==
    /\ Call("begin", "swipe_4f", With(gesture, "swipe_4f", SwipeGesture_begin(gesture.swipe_4f)), <<>>,
            FALSE, "none", "none", "unit", <<>>)
    /\ Begun("swipe_4f")

pinch_3f_begin ==
    /\ Call("begin", "pinch_3f", With(gesture, "pinch_3f", PinchGesture_begin(gesture.pinch_3f)), <<>>,
            FALSE, "none", "none", "unit", <<>>)
    /\ Begun("pinch_3f")

pinch_4f_begin ==
    /\ Call("begin", "pinch_4f", With(gesture, "pinch_4f", PinchGesture_begin(gesture.pinch_4f)), <<>>,
            FALSE, "none", "none", "unit", <<>>)
    /\ Begun("pinch_4f")

hold_3f_begin ==
    \E ts \in HoldBeginTimes :
       /\ Call("begin", "hold_3f", With(gesture, "hold_3f", HoldGesture_begin(gesture.hold_3f, ts)), ts,
               FALSE, "none", "none", "unit", <<>>)
       /\ Begun("hold_3f")

hold_4f_begin ==
    \E ts \in HoldBeginTimes :
       /\ Call("begin", "hold_4f", With(gesture, "hold_4f", HoldGesture_begin(gesture.hold_4f, ts)), ts,
               FALSE, "none", "none", "unit", <<>>)
       /\ Begun("hold_4f")

---------------------------------------------------------------------------
\* The displacement (x, y) is at or past the commit threshold.
Crossed(f) == f.x * f.x + f.y * f.y >= 256

\* swipe.update_and_maybe_decide(dx, dy) on cell c
FeedSwipe(c, dx, dy) ==
    LET r == update_and_maybe_decide(gesture[c], dx, dy)
    IN  /\ Call("update_and_maybe_decide", c, With(gesture, c, r.self), <<dx, dy>>,
                FALSE, "none", "none", r.ret, <<>>)
        /\ fed' = IF fed[c].on
                  THEN LET f == [fed[c] EXCEPT !.x = @ + dx, !.y = @ + dy]
                       IN  [fed EXCEPT ![c] = [f EXCEPT !.on = ~Crossed(f)]]
                  ELSE fed
        /\ post' = IF c = "swipe_4f" /\ r.ret # "None" THEN NoPost ELSE post
        /\ UNCHANGED <<panicked, final>>

swipe_3f_update_and_maybe_decide ==
    \E d \in SwipeFeeds : FeedSwipe("swipe_3f", d[1], d[2])

swipe_4f_update_and_maybe_decide ==
    \E d \in SwipeFeeds : FeedSwipe("swipe_4f", d[1], d[2])

Do_swipe_3f_on_update ==
    LET r == State_swipe_3f_on_update(gesture)
    IN  /\ Call("swipe_3f_on_update", "swipe_3f", r.gesture, <<>>,
                FALSE, "none", "none", Bool(r.ret), r.fired)
        /\ UNCHANGED <<panicked, fed, post, final>>

Do_swipe_4f_on_update ==
    \E dx \in LiveDeltas, dy \in LiveDys, focus \in FocusApps :
       LET pre  == gesture.swipe_4f
           r    == State_swipe_4f_on_update(gesture, dx, dy, focus)
           live == pre.decision = "Decided" /\ pre.direction = "Horizontal"
       IN  /\ Call("swipe_4f_on_update", "swipe_4f", r.gesture, dx,
                   FALSE, focus, "none", Bool(r.ret), r.fired)
           /\ post' = IF ~live THEN post
                      ELSE IF r.fired # <<>> THEN NoPost
                      ELSE IF is_chrome(focus) THEN [post EXCEPT !.sum = @ + dx]
                      ELSE [post EXCEPT !.strayed = TRUE]
           /\ fed' = IF live /\ is_chrome(focus)
                     THEN [fed EXCEPT !.swipe_4f.live = TRUE] ELSE fed
           /\ UNCHANGED <<panicked, final>>

Do_pinch_3f_on_update ==
    \E scale \in PinchScales :
       LET r == State_pinch_3f_on_update(gesture, scale)
       IN  /\ Call("pinch_3f_on_update", "pinch_3f", r.gesture, scale,
                   FALSE, "none", "none", Bool(r.ret), r.fired)
           /\ final' = IF r.ret THEN [final EXCEPT !.pinch_3f = <<scale>>] ELSE final
           /\ UNCHANGED <<panicked, fed, post>>

Do_pinch_4f_on_update ==
    \E scale \in PinchScales :
       LET r == State_pinch_4f_on_update(gesture, scale)
       IN  /\ Call("pinch_4f_on_update", "pinch_4f", r.gesture, scale,
                   FALSE, "none", "none", Bool(r.ret), r.fired)
           /\ final' = IF r.ret THEN [final EXCEPT !.pinch_4f = <<scale>>] ELSE final
           /\ UNCHANGED <<panicked, fed, post>>

---------------------------------------------------------------------------
\* reset() of each cell is public.  swipe_3f and hold_3f have no on_end
\* reducer: their gestures end with reset().
swipe_3f_reset ==
    LET cell == SwipeGesture_reset(gesture.swipe_3f)
    IN  /\ Call("reset", "swipe_3f", With(gesture, "swipe_3f", cell), <<>>, FALSE, "none", "none", "unit", <<>>)
        /\ Ended("swipe_3f", cell) /\ UNCHANGED panicked

swipe_4f_reset ==
    LET cell == SwipeGesture_reset(gesture.swipe_4f)
    IN  /\ Call("reset", "swipe_4f", With(gesture, "swipe_4f", cell), <<>>, FALSE, "none", "none", "unit", <<>>)
        /\ Ended("swipe_4f", cell) /\ UNCHANGED panicked

pinch_3f_reset ==
    LET cell == PinchGesture_reset(gesture.pinch_3f)
    IN  /\ Call("reset", "pinch_3f", With(gesture, "pinch_3f", cell), <<>>, FALSE, "none", "none", "unit", <<>>)
        /\ Ended("pinch_3f", cell) /\ UNCHANGED panicked

pinch_4f_reset ==
    LET cell == PinchGesture_reset(gesture.pinch_4f)
    IN  /\ Call("reset", "pinch_4f", With(gesture, "pinch_4f", cell), <<>>, FALSE, "none", "none", "unit", <<>>)
        /\ Ended("pinch_4f", cell) /\ UNCHANGED panicked

hold_3f_reset ==
    LET cell == HoldGesture_reset(gesture.hold_3f)
    IN  /\ Call("reset", "hold_3f", With(gesture, "hold_3f", cell), <<>>, FALSE, "none", "none", "unit", <<>>)
        /\ Ended("hold_3f", cell) /\ UNCHANGED panicked

hold_4f_reset ==
    LET cell == HoldGesture_reset(gesture.hold_4f)
    IN  /\ Call("reset", "hold_4f", With(gesture, "hold_4f", cell), <<>>, FALSE, "none", "none", "unit", <<>>)
        /\ Ended("hold_4f", cell) /\ UNCHANGED panicked

Do_swipe_4f_on_end ==
    \E cancelled \in BOOLEAN :
       LET r == State_swipe_4f_on_end(gesture, cancelled)
       IN  /\ Call("swipe_4f_on_end", "swipe_4f", r.gesture, <<>>,
                   cancelled, "none", "none", Bool(r.ret), r.fired)
           /\ Ended("swipe_4f", r.gesture.swipe_4f) /\ UNCHANGED panicked

Do_pinch_3f_on_end ==
    \E cancelled \in BOOLEAN, cursor \in CursorWindows :
       LET r == State_pinch_3f_on_end(gesture, cancelled, cursor)
       IN  /\ Call("pinch_3f_on_end", "pinch_3f", r.gesture, <<>>,
                   cancelled, "none", cursor, Bool(r.ret), r.fired)
           /\ Ended("pinch_3f", r.gesture.pinch_3f) /\ UNCHANGED panicked

Do_pinch_4f_on_end ==
    \E cancelled \in BOOLEAN, focus \in FocusApps :
       LET r == State_pinch_4f_on_end(gesture, cancelled, focus)
       IN  /\ Call("pinch_4f_on_end", "pinch_4f", r.gesture, <<>>,
                   cancelled, focus, "none", Bool(r.ret), r.fired)
           /\ Ended("pinch_4f", r.gesture.pinch_4f) /\ UNCHANGED panicked

\* The build either checks the u32 addition or lets it wrap.
Do_hold_4f_on_end ==
    \E ts \in HoldEndTimes, cancelled \in BOOLEAN, focus \in FocusApps,
       cursor \in CursorWindows, overflow_checks \in BOOLEAN :
       LET r == State_hold_4f_on_end(gesture, ts, cancelled, focus, cursor,
                               overflow_checks)
       IN  /\ Call("hold_4f_on_end", "hold_4f", r.gesture, ts,
                   cancelled, focus, cursor,
                   IF r.panic THEN "panic" ELSE Bool(r.ret), r.fired)
           /\ panicked' = r.panic
           /\ Ended("hold_4f", r.gesture.hold_4f)

---------------------------------------------------------------------------
\* More calls can be made in the bounded sequence.
More == calls < MaxCalls

\* The history of a bounded sequence after the call just made.
Tally ==
    /\ calls' = calls + 1
    /\ terminal' = IF last'.op = "begin" /\ last'.cell \in DOMAIN terminal
                   THEN [terminal EXCEPT ![last'.cell] = 0]
                   ELSE IF last'.op \in OnEndOps
                   THEN [terminal EXCEPT ![last'.cell] = @ + Len(last'.fired)]
                   ELSE terminal
    /\ UNCHANGED <<active, gestures>>

\* Any call at any time: every sequence of at most MaxCalls calls.
Next ==
    \/ More /\ swipe_3f_begin /\ Tally
    \/ More /\ swipe_4f_begin /\ Tally
    \/ More /\ pinch_3f_begin /\ Tally
    \/ More /\ pinch_4f_begin /\ Tally
    \/ More /\ hold_3f_begin /\ Tally
    \/ More /\ hold_4f_begin /\ Tally
    \/ More /\ swipe_3f_update_and_maybe_decide /\ Tally
    \/ More /\ swipe_4f_update_and_maybe_decide /\ Tally
    \/ More /\ Do_swipe_3f_on_update /\ Tally
    \/ More /\ Do_swipe_4f_on_update /\ Tally
    \/ More /\ Do_pinch_3f_on_update /\ Tally
    \/ More /\ Do_pinch_4f_on_update /\ Tally
    \/ More /\ swipe_3f_reset /\ Tally
    \/ More /\ swipe_4f_reset /\ Tally
    \/ More /\ pinch_3f_reset /\ Tally
    \/ More /\ pinch_4f_reset /\ Tally
    \/ More /\ hold_3f_reset /\ Tally
    \/ More /\ hold_4f_reset /\ Tally
    \/ More /\ Do_swipe_4f_on_end /\ Tally
    \/ More /\ Do_pinch_3f_on_end /\ Tally
    \/ More /\ Do_pinch_4f_on_end /\ Tally
    \/ More /\ Do_hold_4f_on_end /\ Tally

Spec == Init /\ [][Next]_vars

\* Well-formed gestures per cell, in sequences of any length: on each cell a
\* gesture is begin, then updates, then one end (on_end, or reset on the cells
\* that have no on_end); gestures on different cells may overlap, and reset
\* can also be called on a cell between its gestures.
Starts(c) ==
    /\ c \notin active
    /\ gestures < MaxGestures
    /\ active' = active \cup {c}
    /\ gestures' = gestures + 1
    /\ UNCHANGED <<terminal, calls>>

During(c) ==
    /\ c \in active
    /\ UNCHANGED <<active, gestures, terminal, calls>>

Ends(c) ==
    /\ c \in active
    /\ active' = active \ {c}
    /\ UNCHANGED <<gestures, terminal, calls>>

Between(c) ==
    /\ c \notin active
    /\ UNCHANGED <<active, gestures, terminal, calls>>

NextWF ==
    \/ Starts("swipe_3f") /\ swipe_3f_begin
    \/ Starts("swipe_4f") /\ swipe_4f_begin
    \/ Starts("pinch_3f") /\ pinch_3f_begin
    \/ Starts("pinch_4f") /\ pinch_4f_begin
    \/ Starts("hold_3f") /\ hold_3f_begin
    \/ Starts("hold_4f") /\ hold_4f_begin
    \/ During("swipe_3f") /\ swipe_3f_update_and_maybe_decide
    \/ During("swipe_4f") /\ swipe_4f_update_and_maybe_decide
    \/ During("swipe_3f") /\ Do_swipe_3f_on_update
    \/ During("swipe_4f") /\ Do_swipe_4f_on_update
    \/ During("pinch_3f") /\ Do_pinch_3f_on_update
    \/ During("pinch_4f") /\ Do_pinch_4f_on_update
    \/ (Ends("swipe_3f") \/ Between("swipe_3f")) /\ swipe_3f_reset
    \/ Between("swipe_4f") /\ swipe_4f_reset
    \/ Between("pinch_3f") /\ pinch_3f_reset
    \/ Between("pinch_4f") /\ pinch_4f_reset
    \/ (Ends("hold_3f") \/ Between("hold_3f")) /\ hold_3f_reset
    \/ Between("hold_4f") /\ hold_4f_reset
    \/ Ends("swipe_4f") /\ Do_swipe_4f_on_end
    \/ Ends("pinch_3f") /\ Do_pinch_3f_on_end
    \/ Ends("pinch_4f") /\ Do_pinch_4f_on_end
    \/ Ends("hold_4f") /\ Do_hold_4f_on_end

SpecWF == Init /\ [][NextWF]_vars

(***************************************************************************)
(* Calls as records.  A call is a record of the method and its arguments, *)
(* applied to the registry by Run.                                         *)
(***************************************************************************)
K(op, c, arg, cancelled, focus, cursor, checks) ==
    [op |-> op, cell |-> c, arg |-> arg, cancelled |-> cancelled,
     focus |-> focus, cursor |-> cursor, checks |-> checks]

SampleCalls ==
    { K("begin", c, <<>>, FALSE, "none", "none", FALSE) :
        c \in {"swipe_3f", "swipe_4f", "pinch_3f", "pinch_4f"} }
    \cup { K("begin", c, ts, FALSE, "none", "none", FALSE) :
        c \in {"hold_3f", "hold_4f"}, ts \in HoldBeginTimes }
    \cup { K("update_and_maybe_decide", c, d, FALSE, "none", "none", FALSE) :
        c \in {"swipe_3f", "swipe_4f"}, d \in {<<16, 0>>, <<0, 16>>, <<8, 0>>} }
    \cup { K("reset", c, <<>>, FALSE, "none", "none", FALSE) : c \in Cells }
    \cup { K("swipe_3f_on_update", "swipe_3f", <<>>, FALSE, "none", "none", FALSE) }
    \cup { K("swipe_4f_on_update", "swipe_4f", -160, FALSE, focus, "none", FALSE) :
        focus \in {"google-chrome", "other"} }
    \cup { K("swipe_4f_on_end", "swipe_4f", <<>>, FALSE, "none", "none", FALSE) }
    \cup { K("pinch_3f_on_update", "pinch_3f", scale, FALSE, "none", "none", FALSE) :
        scale \in {50, 100, 130} }
    \cup { K("pinch_4f_on_update", "pinch_4f", scale, FALSE, "none", "none", FALSE) :
        scale \in {50, 100, 130} }
    \cup { K("pinch_3f_on_end", "pinch_3f", <<>>, cancelled, "none", "w1", FALSE) :
        cancelled \in BOOLEAN }
    \cup { K("pinch_4f_on_end", "pinch_4f", <<>>, cancelled, "google-chrome", "none", FALSE) :
        cancelled \in BOOLEAN }
    \cup { K("hold_4f_on_end", "hold_4f", ts, FALSE, focus, "w1", checks) :
        ts \in {U32(0, 1300), U32_MAX}, focus \in {"google-chrome", "other"},
        checks \in BOOLEAN }

Ran(g, ret, fired) == [gesture |-> g, ret |-> ret, fired |-> fired, panic |-> FALSE]

Returned(r) == Ran(r.gesture, Bool(r.ret), r.fired)

\* The registry after call k on registry g, what k returned and what it fired.
Run(g, k) ==
    CASE k.op = "begin" ->
           Ran(With(g, k.cell,
                    IF k.cell \in {"swipe_3f", "swipe_4f"} THEN SwipeGesture_begin(g[k.cell])
                    ELSE IF k.cell \in {"pinch_3f", "pinch_4f"} THEN PinchGesture_begin(g[k.cell])
                    ELSE HoldGesture_begin(g[k.cell], k.arg)), "unit", <<>>)
      [] k.op = "reset" ->
           Ran(With(g, k.cell,
                    IF k.cell \in {"swipe_3f", "swipe_4f"} THEN SwipeGesture_reset(g[k.cell])
                    ELSE IF k.cell \in {"pinch_3f", "pinch_4f"} THEN PinchGesture_reset(g[k.cell])
                    ELSE HoldGesture_reset(g[k.cell])), "unit", <<>>)
      [] k.op = "update_and_maybe_decide" ->
           LET r == update_and_maybe_decide(g[k.cell], k.arg[1], k.arg[2])
           IN  Ran(With(g, k.cell, r.self), r.ret, <<>>)
      [] k.op = "swipe_3f_on_update" -> Returned(State_swipe_3f_on_update(g))
      [] k.op = "swipe_4f_on_update" ->
           Returned(State_swipe_4f_on_update(g, k.arg, 0, k.focus))
      [] k.op = "swipe_4f_on_end" -> Returned(State_swipe_4f_on_end(g, k.cancelled))
      [] k.op = "pinch_3f_on_update" -> Returned(State_pinch_3f_on_update(g, k.arg))
      [] k.op = "pinch_3f_on_end" ->
           Returned(State_pinch_3f_on_end(g, k.cancelled, k.cursor))
      [] k.op = "pinch_4f_on_update" -> Returned(State_pinch_4f_on_update(g, k.arg))
      [] k.op = "pinch_4f_on_end" ->
           Returned(State_pinch_4f_on_end(g, k.cancelled, k.focus))
      [] k.op = "hold_4f_on_end" ->
           LET r == State_hold_4f_on_end(g, k.arg, k.cancelled, k.focus, k.cursor,
                                         k.checks)
           IN  [gesture |-> r.gesture, ret |-> IF r.panic THEN "panic" ELSE Bool(r.ret),
                fired |-> r.fired, panic |-> r.panic]

(***************************************************************************)
(* Properties                                                              *)
(***************************************************************************)
\* The cell of the last call, as the call left it.
Now == gesture[last.cell]

Fired(act) == \E i \in 1..Len(last.fired) : last.fired[i].act = act

PinchUpdateOps == {"pinch_3f_on_update", "pinch_4f_on_update"}

\* a - b on u32 for a >= b
U32_diff(a, b) ==
    IF a[2] >= b[2] THEN U32(a[1] - b[1], a[2] - b[2])
    ELSE U32(a[1] - b[1] - 1, a[2] + LimbBase - b[2])

\* C1: an on_end call made while its cell's decision is not Unknown leaves the
\* decision Unknown, whatever cancelled, the scale, the duration and the windows are.
C1_EndAlwaysResets ==
    (last.op \in OnEndOps /\ last.ret # "panic" /\ last.pre.decision # "Unknown")
        => Now.decision = "Unknown"

\* C2: pinch_3f_on_end performs no toggle_window_width when cancelled is true or
\* when the last sample fed since the most recent begin lies in [0.7, 1.3).
C2_NoToggleInDeadZone ==
    (/\ last.op = "pinch_3f_on_end"
     /\ \/ last.cancelled
        \/ /\ last.hist.final # <<>>
           /\ in_dead_zone(last.hist.final[1]))
        => ~Fired("toggle_window_width")

\* C3: in well-formed gestures, a pinch_3f gesture that committed a direction and
\* ends not cancelled, with its last sample outside [0.7, 1.3) and a window under
\* the cursor, toggles that window's width exactly once: shrink for In, grow for Out.
C3_ToggleOnce ==
    (/\ last.op = "pinch_3f_on_end"
     /\ last.pre.decision = "Decided"
     /\ ~last.cancelled
     /\ last.cursor # "none"
     /\ last.hist.final # <<>>
     /\ ~in_dead_zone(last.hist.final[1]))
        => last.fired = <<toggle_window_width(last.cursor, last.pre.direction = "Out")>>

\* C4: the second of two on_end calls in a row on one cell changes no cell state,
\* fires no action and returns false.
C4_SecondEndIsNoOp ==
    (last.op \in OnEndOps /\ last.again /\ last.ret # "panic")
        => (Now = last.pre /\ last.fired = <<>> /\ last.ret = "false")

\* C5: for ts >= begin_ts, hold_4f_on_end returns without an action when cancelled
\* or when ts - begin_ts < 300, and fires when not cancelled and ts - begin_ts >= 300
\* (given a target-application focus or a window under the cursor to act on).
C5_HoldThreshold ==
    (/\ last.op = "hold_4f_on_end"
     /\ last.pre.decision = "Decided"
     /\ ~U32_lt(last.arg, last.pre.begin_ts))
        => LET held  == U32_diff(last.arg, last.pre.begin_ts)
               short == held[1] = 0 /\ held[2] < 300
           IN  /\ (last.cancelled \/ short)
                    => (last.fired = <<>> /\ last.ret # "panic")
               /\ (~last.cancelled /\ ~short
                      /\ (is_chrome(last.focus) \/ last.cursor # "none"))
                    => last.fired # <<>>

\* C6: with swipe_4f Decided Horizontal and the target application focused on
\* every swipe_4f_on_update since the decision, a tab switch is injected exactly
\* when the dx fed since the decision (or the previous injection) sum to more
\* than 150 in magnitude: previous tab for a negative sum, next tab for a
\* positive one, and the accumulator is then 0.
C6_LiveAccumulator ==
    (/\ last.op = "swipe_4f_on_update"
     /\ last.pre.decision = "Decided"
     /\ last.pre.direction = "Horizontal"
     /\ is_chrome(last.focus)
     /\ ~last.hist.post.strayed)
        => LET sum == last.hist.post.sum + last.arg
           IN  IF Abs(sum) > 150
               THEN /\ last.fired = <<spawn(IF sum < 0 THEN CHROME_LEFT_TAB
                                                       ELSE CHROME_RIGHT_TAB)>>
                    /\ Now.cx = 0
               ELSE last.fired = <<>>

\* C7: in a sequence of update_and_maybe_decide calls on a swipe cell, cx and cy
\* are the sums of the deltas fed since the cell's last reset; a call on a
\* Deciding cell returns a direction and commits exactly when it brings
\* cx*cx + cy*cy to 256 or more, and otherwise returns None and leaves the cell
\* Deciding; every call on a cell that is not Deciding (after the commit)
\* returns None and leaves the cell as it is.
C7_ThresholdExact ==
    last.op = "update_and_maybe_decide"
        => LET f0 == last.hist.fed
               f1 == [x |-> last.pre.cx + last.arg[1], y |-> last.pre.cy + last.arg[2]]
           IN  /\ ~f0.live => (last.pre.cx = f0.x /\ last.pre.cy = f0.y)
               /\ IF last.pre.decision = "Deciding"
                  THEN /\ Crossed(f1) =>
                             /\ last.ret \in {"Horizontal", "Vertical"}
                             /\ Now.decision = "Decided"
                             /\ Now.direction = last.ret
                       /\ ~Crossed(f1) =>
                             /\ last.ret = "None"
                             /\ Now.decision = "Deciding"
                             /\ Now.direction = last.pre.direction
                       /\ Now.cx = f1.x /\ Now.cy = f1.y
                  ELSE last.ret = "None" /\ Now = last.pre

\* C7 witness: the second of two updates by (8, 0) brings the sum to exactly
\* the threshold and commits.
C7_Witness ==
    /\ last.op = "update_and_maybe_decide"
    /\ last.pre.decision = "Deciding"
    /\ last.hist.fed = [on |-> TRUE, x |-> 8, y |-> 0, live |-> FALSE]
    /\ last.arg = <<8, 0>>
    /\ last.ret = "Horizontal"
    /\ Now = [cx |-> 16, cy |-> 0, direction |-> "Horizontal", decision |-> "Decided"]

\* C8: a committed swipe is Horizontal if |cx| > |cy| and Vertical otherwise
\* (ties are Vertical); a Decided swipe cell has no other direction.
C8_TieBreak ==
    /\ (last.op = "update_and_maybe_decide" /\ last.ret # "None")
          => /\ Now.direction = last.ret
             /\ (Abs(Now.cx) > Abs(Now.cy)) => last.ret = "Horizontal"
             /\ (Abs(Now.cx) <= Abs(Now.cy)) => last.ret = "Vertical"
    /\ \A c \in {"swipe_3f", "swipe_4f"} :
          gesture[c].decision = "Decided"
              => gesture[c].direction \in {"Horizontal", "Vertical"}

\* C8 witness: a commit on a tie of magnitudes, with a negative cx.
C8_Witness ==
    /\ last.op = "update_and_maybe_decide"
    /\ last.ret = "Vertical"
    /\ Now.cx < 0
    /\ Abs(Now.cx) = Abs(Now.cy)

\* C9: on a Deciding pinch cell, on_update commits In for scale < 0.9, Out for
\* scale > 1.1, and leaves decision and direction alone for 0.9 <= scale <= 1.1;
\* on a Deciding or Decided cell it returns true.
C9_PinchClassify ==
    (last.op \in PinchUpdateOps)
        => /\ last.pre.decision # "Unknown" => last.ret = "true"
           /\ last.pre.decision = "Deciding" =>
                 /\ last.arg < 90 =>
                       Now.decision = "Decided" /\ Now.direction = "In"
                 /\ last.arg > 110 =>
                       Now.decision = "Decided" /\ Now.direction = "Out"
                 /\ (90 <= last.arg /\ last.arg <= 110) =>
                       /\ Now.decision = "Deciding"
                       /\ Now.direction = last.pre.direction

\* C9 witness: a second sample on the boundary 0.9 in a row leaves the cell Deciding.
C9_Witness ==
    /\ last.op \in PinchUpdateOps
    /\ last.pre.decision = "Deciding"
    /\ last.arg = 90
    /\ last.hist.final = <<110>>
    /\ Now.decision = "Deciding"

\* C10: in well-formed gestures a swipe or pinch decision only steps
\* Unknown -> Deciding, Deciding -> Decided, Decided -> Unknown, Deciding -> Unknown,
\* and a hold decision only Unknown -> Decided, Decided -> Unknown.
C10_LinearSteps ==
    last.op # "new"
        => LET step == <<last.pre.decision, Now.decision>>
           IN  \/ step[1] = step[2]
               \/ /\ last.cell \in {"swipe_3f", "swipe_4f", "pinch_3f", "pinch_4f"}
                  /\ step \in { <<"Unknown", "Deciding">>, <<"Deciding", "Decided">>,
                                <<"Decided", "Unknown">>, <<"Deciding", "Unknown">> }
               \/ /\ last.cell \in {"hold_3f", "hold_4f"}
                  /\ step \in { <<"Unknown", "Decided">>, <<"Decided", "Unknown">> }


\* C11: after begin() on a swipe or pinch cell, whatever the cell held before, the
\* accumulators are at their defaults (cx = cy = 0, scale = 0), direction is
\* Unknown and decision is Deciding; after begin(ts) on a hold cell, begin_ts is
\* ts and decision is Decided.
C11_BeginResets ==
    last.op = "begin"
        => CASE last.cell \in {"swipe_3f", "swipe_4f"} ->
                  Now = [cx |-> 0, cy |-> 0, direction |-> "Unknown",
                         decision |-> "Deciding"]
             [] last.cell \in {"pinch_3f", "pinch_4f"} ->
                  Now = [scale |-> 0, direction |-> "Unknown",
                         decision |-> "Deciding"]
             [] OTHER ->
                  Now = [begin_ts |-> last.arg, decision |-> "Decided"]


\* C12: pinch_4f_on_end on a Decided cell with cancelled = false and the stored
\* scale outside [0.7, 1.3) injects exactly one key sequence when the focused
\* application is the target (back for In, refresh for Out) and nothing when it
\* is not or nothing is focused; either way the cell is reset to Unknown and the
\* call returns true.  pinch_4f_on_end never toggles a window width or requests
\* a close.
C12_Pinch4fTerminal ==
    last.op = "pinch_4f_on_end"
        => /\ ~Fired("toggle_window_width") /\ ~Fired("send_close")
           /\ (/\ last.pre.decision = "Decided"
               /\ ~last.cancelled
               /\ ~in_dead_zone(last.pre.scale))
                 => /\ last.fired =
                          IF ~is_chrome(last.focus) THEN <<>>
                          ELSE IF last.pre.direction = "In" THEN <<spawn(CHROME_BACK)>>
                          ELSE <<spawn(CHROME_REFRESH)>>
                    /\ last.pre.direction \in {"In", "Out"}
                    /\ Now = PinchGesture_new
                    /\ last.ret = "true"

C12_Witness ==
    /\ last.op = "pinch_4f_on_end"
    /\ last.pre = [scale |-> 130, direction |-> "Out", decision |-> "Decided"]
    /\ ~last.cancelled
    /\ last.fired = <<spawn(CHROME_REFRESH)>>
    /\ Now.decision = "Unknown"


\* C13: when hold_4f_on_end fires (cell Decided, cancelled = false, held for at
\* least 300 ms) it takes exactly one of two actions: with the target
\* application focused it injects close-tab and requests no close; otherwise it
\* requests a close of the window under the cursor and injects no key; with
\* neither, it takes no action.  In every case the cell is reset to Unknown and
\* the call returns true.
C13_HoldTerminal ==
    (/\ last.op = "hold_4f_on_end"
     /\ last.pre.decision = "Decided"
     /\ ~last.cancelled
     /\ ~U32_lt(last.arg, last.pre.begin_ts)
     /\ LET held == U32_diff(last.arg, last.pre.begin_ts)
        IN  held[1] > 0 \/ held[2] >= 300)
        => /\ last.fired =
                 IF is_chrome(last.focus) THEN <<spawn(CHROME_CLOSE_TAB)>>
                 ELSE IF last.cursor # "none" THEN <<send_close(last.cursor)>>
                 ELSE <<>>
           /\ Now = HoldGesture_new
           /\ last.ret = "true"

C13_Witness ==
    /\ last.op = "hold_4f_on_end"
    /\ last.pre.decision = "Decided"
    /\ ~last.cancelled
    /\ last.focus = "google-chrome"
    /\ last.cursor = "w1"
    /\ last.fired = <<spawn(CHROME_CLOSE_TAB)>>
    /\ Now.decision = "Unknown"


\* C14: swipe_4f_on_update on a cell Decided Horizontal with a focused
\* application that is not the target, or none focused, injects no key, leaves
\* every field of the cell (cx included) unchanged and returns true; on a cell
\* Decided Vertical, or not Decided, it injects nothing, changes nothing and
\* returns false.
C14_Swipe4fFrame ==
    last.op = "swipe_4f_on_update"
        => /\ (/\ last.pre.decision = "Decided"
               /\ last.pre.direction = "Horizontal"
               /\ ~is_chrome(last.focus))
                 => (last.fired = <<>> /\ Now = last.pre /\ last.ret = "true")
           /\ (\/ last.pre.decision # "Decided"
               \/ last.pre.direction = "Vertical")
                 => (last.fired = <<>> /\ Now = last.pre /\ last.ret = "false")

C14_Witness ==
    /\ last.op = "swipe_4f_on_update"
    /\ last.pre.decision = "Decided"
    /\ last.pre.direction = "Horizontal"
    /\ last.focus = "other"
    /\ last.arg = 160
    /\ last.pre.cx = 16
    /\ Now.cx = 16
    /\ last.ret = "true"


ReducerOps ==
    {"swipe_3f_on_update", "swipe_4f_on_update", "pinch_3f_on_update",
     "pinch_4f_on_update"} \cup OnEndOps

\* C15: every on_update and on_end reducer called while its cell's decision is
\* Unknown returns false, fires no external action and leaves all six cells
\* unchanged.
C15_UnknownNoOp ==
    (last.op \in ReducerOps /\ last.pre.decision = "Unknown")
        => /\ last.ret = "false"
           /\ last.fired = <<>>
           /\ gesture = last.before

C15_Witness ==
    /\ last.op = "swipe_4f_on_end"
    /\ last.pre.decision = "Unknown"
    /\ last.cancelled
    /\ last.ret = "false"
    /\ gesture = MyTouchpadGesture_new


\* The last call as a call record; the build checked the addition if the call
\* panicked.
LastCall ==
    K(last.op, last.cell, last.arg, last.cancelled, last.focus, last.cursor,
      last.ret = "panic")

\* Call k1 and then call k2 on registry g: the registry left and what each
\* fired.  k2 is never made when k1 panics.
Then(g, k1, k2) ==
    LET a == Run(g, k1)
        b == Run(a.gesture, k2)
    IN  IF a.panic THEN [gesture |-> a.gesture, panic |-> TRUE,
                         fired |-> <<a.fired, <<>>>>]
        ELSE [gesture |-> b.gesture, panic |-> b.panic, fired |-> <<a.fired, b.fired>>]

\* The last call and k, in the two orders, from the registry before the last call.
SameEitherOrder(k) ==
    LET x == Then(last.before, LastCall, k)
        y == Then(last.before, k, LastCall)
    IN  /\ x.gesture = y.gesture
        /\ x.fired[1] = y.fired[2]
        /\ x.fired[2] = y.fired[1]

\* C16: the six cells are independent: every begin / on_update / on_end call
\* leaves the other five cells unchanged, and a call on another cell made
\* before it instead of after it gives the same final registry and the same
\* fired actions.
C16_Independent ==
    last.op # "new"
        => /\ \A d \in Cells \ {last.cell} : gesture[d] = last.before[d]
           /\ \A k \in SampleCalls : k.cell # last.cell => SameEitherOrder(k)

\* The same for calls that return: neither of the two calls panics in either
\* order.
C16_IndependentUnlessPanic ==
    last.op # "new"
        => /\ \A d \in Cells \ {last.cell} : gesture[d] = last.before[d]
           /\ \A k \in SampleCalls :
                 (/\ k.cell # last.cell
                  /\ ~Then(last.before, LastCall, k).panic
                  /\ ~Then(last.before, k, LastCall).panic)
                    => SameEitherOrder(k)


\* C17: on pinch_3f and pinch_4f, once the cell is Decided every further
\* on_update(scale) leaves direction and decision as they are and stores that
\* sample, so the stored scale that on_end reads on a Decided cell is the last
\* sample fed to on_update during the gesture.
C17_LatestScale ==
    /\ (last.op \in PinchUpdateOps /\ last.pre.decision = "Decided")
          => Now = [last.pre EXCEPT !.scale = last.arg]
    /\ (/\ last.op \in {"pinch_3f_on_end", "pinch_4f_on_end"}
        /\ last.pre.decision = "Decided"
        /\ last.hist.final # <<>>)
          => last.pre.scale = last.hist.final[1]


\* C18: in every reachable registry state, a swipe or pinch cell whose decision
\* is Unknown has direction Unknown and zeroed accumulators (cx = cy = 0,
\* scale = 0) and a hold cell whose decision is Unknown has begin_ts = 0; a
\* Decided swipe cell has direction Horizontal or Vertical, a Decided pinch cell
\* has direction In or Out, and a hold cell is never Deciding.
C18_CellInvariant ==
    /\ \A c \in {"swipe_3f", "swipe_4f"} :
          /\ gesture[c].decision = "Unknown" => gesture[c] = SwipeGesture_new
          /\ gesture[c].decision = "Decided"
                => gesture[c].direction \in {"Horizontal", "Vertical"}
    /\ \A c \in {"pinch_3f", "pinch_4f"} :
          /\ gesture[c].decision = "Unknown" => gesture[c] = PinchGesture_new
          /\ gesture[c].decision = "Decided" => gesture[c].direction \in {"In", "Out"}
    /\ \A c \in {"hold_3f", "hold_4f"} :
          /\ gesture[c].decision = "Unknown" => gesture[c] = HoldGesture_new
          /\ gesture[c].decision # "Deciding"

C18_Witness ==
    /\ last.op = "pinch_3f_on_end"
    /\ last.pre = [scale |-> 50, direction |-> "In", decision |-> "Decided"]
    /\ gesture.pinch_3f.decision = "Unknown"


\* C19: every on_end call that fires a terminal action (toggle_window_width, a
\* key injection, a close request) fires only one and resets its cell to
\* Unknown in the same call; so the on_end calls on a cell between two
\* consecutive begin calls on it fire at most one terminal action together:
\* whatever calls are made on the other cells in between; and an on_end call
\* with cancelled = true fires none.
C19_OneTerminalAction ==
    /\ \A c \in DOMAIN terminal : terminal[c] <= 1
    /\ last.op \in OnEndOps
          => /\ last.fired # <<>> => (Len(last.fired) = 1 /\ Now.decision = "Unknown")
             /\ last.cancelled => last.fired = <<>>

C19_Witness ==
    /\ last.op = "pinch_3f_on_end"
    /\ last.again
    /\ ~last.cancelled
    /\ last.cursor = "w1"
    /\ terminal.pinch_3f = 1
    /\ last.fired = <<>>

====
